---- MODULE Spec2Model ----
(***************************************************************************)
(* MiniRast (src/rast.c): a single-triangle edge-function rasterizer that  *)
(* fills an RGB888 pixel buffer and saves it as a 24-bit bmp file.         *)
(*                                                                         *)
(* Number representation.  Every float the program computes before the     *)
(* weight division is a multiple of 0.25 (vertex and pixel-centre          *)
(* coordinates are multiples of 0.5).  Such a float is held as the integer *)
(* count of quarters (255.5 is 1022), and every float operation rounds its *)
(* result to 24 significant bits, ties to even, as IEEE single does (F32). *)
(* The weights d/area and weight*255 are held as [m, e], meaning m * 2^e   *)
(* with a 24-bit m, computed by FDiv and FMul255 with the same rounding.   *)
(***************************************************************************)
EXTENDS Integers, Sequences, FiniteSets

WIDTH == 512
HEIGHT == 512
EXIT_SUCCESS == 0
EXIT_FAILURE == 1
HeaderLen == 54

\* Bounds of the small-canvas specifications.
MaxW == 4
MaxH == 4
MaxCoord == 2
MaxSeed == 1
MaxParPixels == 16

VARIABLES
    pc,         \* position in main / save_pixels_as_bmp
    cw, ch,     \* canvas width and height (WIDTH, HEIGHT of the build; w, h of the encoder)
    v0, v1, v2, \* triangle corners
    edge0, edge1, edge2, area,
    x, y,       \* pixel loop counters of main
    d0, d1, d2, \* edge distances of the pixel last tested
    pixels,     \* the pixel array (index -> byte)
    wr,         \* buffer indices written by the pixel step last executed
    done,       \* pixels whose step has run
    pixelsMem, bytesMem, \* "none", "live", "freed": state of the two allocations
    frees,      \* number of free() calls per buffer
    uaf,        \* TRUE once a freed or unallocated buffer was read, written or freed
    bytes,      \* byte buffer of save_pixels_as_bmp (index -> byte, -1 = never written)
    ptr,        \* write cursor into bytes
    oob,        \* TRUE once a write went outside the byte buffer
    ey, ex, ei, \* encoder loop counters: row, column, channel / padding index
    pixelsIn,   \* the pixel array as it was passed to save_pixels_as_bmp
    file,       \* bytes written to the destination (<<>> = nothing written)
    diag,       \* path named in the diagnostic printed, "" if none
    res,        \* return value of save_pixels_as_bmp
    exit,       \* exit status of main, -1 while running
    opened,     \* outcome of fopen: "untried", "yes", "no"
    pt          \* sample point of the edge-algebra specification

vars == <<pc, cw, ch, v0, v1, v2, edge0, edge1, edge2, area, x, y, d0, d1, d2,
          pixels, wr, done, pixelsMem, bytesMem, frees, uaf, bytes, ptr, oob,
          ey, ex, ei, pixelsIn, file, diag, res, exit, opened, pt>>

-----------------------------------------------------------------------------
(* IEEE single arithmetic *)

Pow2(n) == 2 ^ n

Abs(n) == IF n < 0 THEN -n ELSE n

Sign(n) == IF n < 0 THEN -1 ELSE IF n > 0 THEN 1 ELSE 0

\* Right shift by k bits with round-to-nearest, ties-to-even.
RoundShift(n, k) ==
    IF k = 0 THEN n
    ELSE LET q == n \div Pow2(k)
             r == n % Pow2(k)
             half == Pow2(k - 1)
         IN  IF r > half \/ (r = half /\ q % 2 = 1) THEN q + 1 ELSE q

\* Floats carry 24 significant bits.
MantLimit == Pow2(24)

\* Number of low bits a non-negative integer loses when held in 24 bits.
ExcessBits(n) ==
    IF n < MantLimit THEN 0
    ELSE CHOOSE k \in 1..8 : n \div Pow2(k) < MantLimit /\ n \div Pow2(k - 1) >= MantLimit

\* A count of quarters rounded to the nearest float.
F32(n) ==
    LET a == Abs(n)
        k == ExcessBits(a)
    IN  Sign(n) * RoundShift(a, k) * Pow2(k)

\* Float product of two counts of quarters (both multiples of 0.5).
FMul(a, b) == F32((a * b) \div 4)

FAdd(a, b) == F32(a + b)

FSub(a, b) == F32(a - b)

\* Doubles n until it reaches d; the result is <<n * 2^s, s>>.
RECURSIVE ScaleUp(_, _, _)
ScaleUp(n, d, s) == IF n >= d THEN <<n, s>> ELSE ScaleUp(2 * n, d, s + 1)

\* Binary long division: `bits` more quotient bits of r/d appended to q.
RECURSIVE LongDiv(_, _, _, _)
LongDiv(q, r, d, bits) ==
    IF bits = 0 THEN <<q, r>>
    ELSE LET r2 == 2 * r
         IN  IF r2 >= d THEN LongDiv(2 * q + 1, r2 - d, d, bits - 1)
                        ELSE LongDiv(2 * q, r2, d, bits - 1)

\* A mantissa that rounding carried up to 2^24 is renormalised.
Norm(m, e) == IF m = MantLimit THEN [m |-> MantLimit \div 2, e |-> e + 1]
                               ELSE [m |-> m, e |-> e]

\* q plus a remainder r out of 2*half, rounded to nearest, ties to even.
RoundPair(q, r, half) == IF r > half \/ (r = half /\ q % 2 = 1) THEN q + 1 ELSE q

\* Float quotient n/d of two positive floats: [m, e] with 2^23 <= m < 2^24.
FDiv(n, d) ==
    LET up == ScaleUp(n, d, 0)           \* n * 2^s >= d
        dn == ScaleUp(d, up[1] \div 2 + 1, 0) \* d * 2^t > n * 2^s / 2
        nn == up[1]
        dd == dn[1]
        qr == LongDiv(1, nn - dd, dd, 23)
        m  == IF 2 * qr[2] > dd \/ (2 * qr[2] = dd /\ qr[1] % 2 = 1)
              THEN qr[1] + 1 ELSE qr[1]
    IN  Norm(m, dn[2] - up[2] - 23)

\* Float product f * 255.0f for a positive float f = [m, e].
FMul255(f) ==
    LET lo == (f.m % 256) * 255
        p8 == (f.m \div 256) * 255 + lo \div 256   \* f.m * 255 = p8 * 256 + r8
        r8 == lo % 256
    IN  IF p8 >= MantLimit \div 2
        THEN Norm(RoundPair(p8, r8, 128), f.e + 8)
        ELSE Norm(RoundPair(2 * p8 + r8 \div 128, r8 % 128, 64), f.e + 7)

\* A non-negative float [m, e] is below 256 (it has a uint8_t value after truncation).
FitsU8(f) == f.e <= -16

\* (mutant) conversion that rounds to the nearest integer.
ToU8Nearest(f) ==
    IF -f.e >= 25 THEN 0 ELSE (f.m + Pow2(-f.e - 1)) \div Pow2(-f.e)

\* Conversion of a non-negative float below 256 to uint8_t: the fraction is discarded.
ToU8(f) == IF -f.e >= 24 THEN 0 ELSE f.m \div Pow2(-f.e)

-----------------------------------------------------------------------------
(* The rasterizer *)

Vec(px, py) == [x |-> px, y |-> py]

\* (mutant) c-term with its two products exchanged.
InitEdgeSwappedC(p0, p1) ==
    [a |-> FSub(p0.y, p1.y),
     b |-> FSub(p1.x, p0.x),
     c |-> FSub(FMul(p0.y, p1.x), FMul(p0.x, p1.y))]

InitEdge(p0, p1) ==
    [a |-> FSub(p0.y, p1.y),
     b |-> FSub(p1.x, p0.x),
     c |-> FSub(FMul(p0.x, p1.y), FMul(p0.y, p1.x))]

TestEdge(edge, point) ==
    FAdd(FAdd(FMul(edge.a, point.x), FMul(edge.b, point.y)), edge.c)

\* The three corners for a canvas of w by h pixels.
Vertex0(w, h) == Vec(2 * w - 2, 2)
Vertex1(w, h) == Vec(2, 4 * h - 2)
Vertex2(w, h) == Vec(4 * w - 2, 2 * h - 2)

\* (mutant) edge 0 built in the natural order v1, v2.
Edge0Forward(p0, p1, p2) == InitEdge(p1, p2)

Edge0(p0, p1, p2) == InitEdge(p2, p1)
\* (mutant) edge 1 built in the natural order v2, v0.
Edge1Forward(p0, p1, p2) == InitEdge(p2, p0)

Edge1(p0, p1, p2) == InitEdge(p0, p2)
Edge2(p0, p1, p2) == InitEdge(p1, p0)

\* (mutant) the c-term of edge 1 added twice, that of edge 2 never.
AreaSlip(e0, e1, e2) == FAdd(FAdd(e0.c, e1.c), e1.c)

Area(e0, e1, e2) == FAdd(FAdd(e0.c, e1.c), e2.c)

PixelCentre(px, py) == Vec(4 * px + 2, 4 * py + 2)

\* (mutant) inside test that accepts points on an edge.
InsideOrOnEdge(a, b, c) == a >= 0 /\ b >= 0 /\ c >= 0

Inside(a, b, c) == a > 0 /\ b > 0 /\ c > 0

\* (mutant) pixels laid out two bytes apart.
PixelIndexNarrow(px, py, w, c) == (py * w + px) * 2 + c

\* Index of channel c of pixel (px, py) in a pixel array of width w.
PixelIndex(px, py, w, c) == (py * w + px) * 3 + c

PixelSlots(px, py, w) == {PixelIndex(px, py, w, c) : c \in 0..2}

\* The weight d / ar of two positive floats.
Weight(d, ar) == FDiv(d, ar)

\* The values (uint8_t)((d / ar) * 255.0f) can take.  The conversion is defined
\* when the truncated product is in 0..255; otherwise (a product of 256 or more, of
\* -1 or less, or the inf/NaN of a division by zero) any byte may result.
Channel(d, ar) ==
    IF ar = 0 THEN 0..255
    ELSE IF d = 0 THEN {0}
    ELSE LET f == FMul255(Weight(Abs(d), Abs(ar)))
         IN  IF Sign(d) = Sign(ar)
             THEN IF FitsU8(f) THEN {ToU8(f)} ELSE 0..255
             ELSE IF FitsU8(f) /\ ToU8(f) = 0 THEN {0} ELSE 0..255

\* The pixel array after the three channel stores of pixel (px, py).
PixelWrite(buf, px, py, w, r, g, bl) ==
    [buf EXCEPT ![PixelIndex(px, py, w, 0)] = r,
                ![PixelIndex(px, py, w, 1)] = g,
                ![PixelIndex(px, py, w, 2)] = bl]

\* The three test_edge results at the centre of pixel (px, py).
Distances(px, py) ==
    LET point == PixelCentre(px, py)
    IN  <<TestEdge(edge0, point), TestEdge(edge1, point), TestEdge(edge2, point)>>

\* The pixel arrays the loop body for pixel (px, py) can leave, starting from buf.
Shaded(buf, px, py) ==
    LET d == Distances(px, py)
    IN  IF Inside(d[1], d[2], d[3])
        THEN {PixelWrite(buf, px, py, cw, r, g, bl) :
                r \in Channel(d[1], area), g \in Channel(d[2], area),
                bl \in Channel(d[3], area)}
        ELSE {buf}

\* Body of the pixel loop for pixel (px, py).
PixelBody(px, py) ==
    LET d == Distances(px, py)
    IN  /\ d0' = d[1] /\ d1' = d[2] /\ d2' = d[3]
        /\ pixels' \in Shaded(pixels, px, py)
        /\ wr' = IF Inside(d[1], d[2], d[3]) THEN PixelSlots(px, py, cw) ELSE {}

\* Values of the variables a specification does not use.
NoCanvas == /\ cw = 0 /\ ch = 0
NoTriangle == /\ v0 = Vec(0, 0) /\ v1 = Vec(0, 0) /\ v2 = Vec(0, 0)
              /\ edge0 = [a |-> 0, b |-> 0, c |-> 0]
              /\ edge1 = [a |-> 0, b |-> 0, c |-> 0]
              /\ edge2 = [a |-> 0, b |-> 0, c |-> 0]
              /\ area = 0
NoLoop == /\ x = 0 /\ y = 0 /\ d0 = 0 /\ d1 = 0 /\ d2 = 0 /\ wr = {} /\ done = {}
NoEncoder == /\ bytes = <<>> /\ ptr = 0 /\ oob = FALSE /\ ey = 0 /\ ex = 0 /\ ei = 0
             /\ pixelsIn = <<>> /\ file = <<>> /\ diag = "" /\ res = -1
NoPoint == pt = Vec(0, 0) /\ opened = "untried"

NoMemory == /\ pixelsMem = "none" /\ bytesMem = "none"
            /\ frees = [pixels |-> 0, bytes |-> 0] /\ uaf = FALSE

\* The triangle of main for a canvas of w by h.
Triangle(w, h) ==
    /\ cw = w /\ ch = h
    /\ v0 = Vertex0(w, h) /\ v1 = Vertex1(w, h) /\ v2 = Vertex2(w, h)
    /\ edge0 = Edge0(v0, v1, v2)
    /\ edge1 = Edge1(v0, v1, v2)
    /\ edge2 = Edge2(v0, v1, v2)
    /\ area = Area(edge0, edge1, edge2)

\* main, lines 50-55: the three edges and the area.
SetupEdges ==
    /\ pc = "edges"
    /\ edge0' = Edge0(v0, v1, v2)
    /\ edge1' = Edge1(v0, v1, v2)
    /\ edge2' = Edge2(v0, v1, v2)
    /\ area' = Area(edge0', edge1', edge2')
    /\ pc' = "loop"
    /\ UNCHANGED <<cw, ch, v0, v1, v2, x, y, d0, d1, d2, pixels, wr, done,
                   pixelsMem, bytesMem, frees, uaf, bytes, ptr, oob, ey, ex, ei,
                   pixelsIn, file, diag, res, exit, opened, pt>>

\* The three channels of pixel (px, py) in the pixel array.
Red(px, py) == pixels[PixelIndex(px, py, cw, 0)]
Green(px, py) == pixels[PixelIndex(px, py, cw, 1)]
Blue(px, py) == pixels[PixelIndex(px, py, cw, 2)]
Black(px, py) == Red(px, py) = 0 /\ Green(px, py) = 0 /\ Blue(px, py) = 0

-----------------------------------------------------------------------------
(* save_pixels_as_bmp *)

Padding(w) == (4 - ((w * 3) % 4)) % 4

\* (mutant) size computed from the unpadded row length.
FileSizeUnpadded(w, h) == HeaderLen + (w * 3) * h

FileSize(w, h) == HeaderLen + (w * 3 + Padding(w)) * h

\* (uint8_t)(v >> 8k)
ShiftByte(v, k) == (v \div Pow2(8 * k)) % 256

LE32(v) == <<ShiftByte(v, 0), ShiftByte(v, 1), ShiftByte(v, 2), ShiftByte(v, 3)>>

\* The 54 header bytes (file info- and DIB-header).
Header(size, w, h) ==
    <<66, 77>> \o LE32(size) \o <<0, 0, 0, 0, 54, 0, 0, 0, 40, 0, 0, 0>>
      \o LE32(w) \o LE32(h)
      \o <<1, 0, 24, 0, 0, 0, 0, 0, 0, 0, 0, 0, 0, 0, 0, 0,
           0, 0, 0, 0, 0, 0, 0, 0, 0, 0, 0, 0>>

\* (mutant) channels read in ascending order.
SrcIndexForward(yy, xx, w, i) == (yy * w + xx) * 3 + (2 - i)

\* Index into the pixel array read for row yy, column xx, channel i.
SrcIndex(yy, xx, w, i) == (yy * w + xx) * 3 + i

\* Lines 119-132: sizes, the byte buffer, the header copied to its start.
SaveBegin ==
    /\ pc = "save"
    /\ bytesMem' = "live"
    /\ bytes' = [i \in 0..(FileSize(cw, ch) - 1) |->
                    IF i < HeaderLen THEN Header(FileSize(cw, ch), cw, ch)[i + 1] ELSE -1]
    /\ ptr' = HeaderLen
    /\ ey' = ch - 1 /\ ex' = 0 /\ ei' = 2
    /\ pixelsIn' = pixels
    /\ pc' = IF ch - 1 >= 0 THEN "row" ELSE "open"
    /\ UNCHANGED <<cw, ch, v0, v1, v2, edge0, edge1, edge2, area, x, y, d0, d1, d2,
                   pixels, wr, done, pixelsMem, frees, uaf, oob, file, diag, res,
                   exit, opened, pt>>

\* Lines 135-137: one pixel byte stored at the cursor.
EncPixelByte ==
    /\ pc = "row" /\ ex < cw
    /\ bytes' = [i \in DOMAIN bytes |->
                    IF i = ptr THEN pixels[SrcIndex(ey, ex, cw, ei)] ELSE bytes[i]]
    /\ oob' = (oob \/ ptr \notin DOMAIN bytes)
    /\ uaf' = (uaf \/ pixelsMem # "live" \/ bytesMem # "live")
    /\ ptr' = ptr + 1
    /\ IF ei > 0 THEN ei' = ei - 1 /\ ex' = ex
       ELSE IF ex + 1 < cw THEN ei' = 2 /\ ex' = ex + 1
       ELSE ei' = 0 /\ ex' = ex + 1      \* the padding loop starts at i = 0
    /\ pc' = IF ex' < cw THEN "row" ELSE "pad"
    /\ UNCHANGED <<cw, ch, v0, v1, v2, edge0, edge1, edge2, area, x, y, d0, d1, d2,
                   pixels, wr, done, pixelsMem, bytesMem, frees, ey, pixelsIn,
                   file, diag, res, exit, opened, pt>>

\* Lines 138-139: one padding byte stored at the cursor.
EncPadByte ==
    /\ pc = "pad" /\ ei < Padding(cw)
    /\ bytes' = [j \in DOMAIN bytes |-> IF j = ptr THEN 0 ELSE bytes[j]]
    /\ oob' = (oob \/ ptr \notin DOMAIN bytes)
    /\ uaf' = (uaf \/ bytesMem # "live")
    /\ ptr' = ptr + 1
    /\ ei' = ei + 1
    /\ UNCHANGED <<pc, ex, cw, ch, v0, v1, v2, edge0, edge1, edge2, area, x, y, d0, d1, d2,
                   pixels, wr, done, pixelsMem, bytesMem, frees, ey, pixelsIn,
                   file, diag, res, exit, opened, pt>>

\* Lines 134, 138: the padding loop ends, the row loop steps to the row above.
EncRowEnd ==
    /\ pc = "pad" /\ ei >= Padding(cw)
    /\ ey' = ey - 1 /\ ex' = 0 /\ ei' = 2
    /\ pc' = IF ey - 1 >= 0 THEN "row" ELSE "open"
    /\ UNCHANGED <<cw, ch, v0, v1, v2, edge0, edge1, edge2, area, x, y, d0, d1, d2,
                   pixels, wr, done, pixelsMem, bytesMem, frees, uaf, bytes, ptr, oob,
                   pixelsIn, file, diag, res, exit, opened, pt>>

\* (mutant) the failure path returns without freeing the byte buffer.
OpenFailLeak ==
    /\ pc = "open"
    /\ opened' = "no"
    /\ diag' = "result.bmp"
    /\ res' = EXIT_FAILURE
    /\ pc' = "saved"
    /\ UNCHANGED <<cw, ch, v0, v1, v2, edge0, edge1, edge2, area, x, y, d0, d1, d2,
                   pixels, wr, done, pixelsMem, bytesMem, frees, uaf, bytes, ptr, oob,
                   ey, ex, ei, pixelsIn, file, exit, pt>>

\* Lines 142-147: fopen returns NULL; diagnostic, free, EXIT_FAILURE.
OpenFail ==
    /\ pc = "open"
    /\ opened' = "no"
    /\ diag' = "result.bmp"
    /\ uaf' = (uaf \/ bytesMem # "live")
    /\ bytesMem' = "freed"
    /\ frees' = [frees EXCEPT !.bytes = @ + 1]
    /\ res' = EXIT_FAILURE
    /\ pc' = "saved"
    /\ UNCHANGED <<cw, ch, v0, v1, v2, edge0, edge1, edge2, area, x, y, d0, d1, d2,
                   pixels, wr, done, pixelsMem, bytes, ptr, oob,
                   ey, ex, ei, pixelsIn, file, exit, pt>>

\* Line 142: fopen succeeds.
OpenOk ==
    /\ pc = "open"
    /\ opened' = "yes"
    /\ pc' = "write"
    /\ UNCHANGED <<cw, ch, v0, v1, v2, edge0, edge1, edge2, area, x, y, d0, d1, d2,
                   pixels, wr, done, pixelsMem, bytesMem, frees, uaf, bytes, ptr, oob,
                   ey, ex, ei, pixelsIn, file, diag, res, exit, pt>>

\* Lines 148-151: the buffer written to the file, fclose, free, EXIT_SUCCESS.
WriteFile ==
    /\ pc = "write"
    /\ file' = [i \in 0..(FileSize(cw, ch) - 1) |-> bytes[i]]
    /\ uaf' = (uaf \/ bytesMem # "live")
    /\ bytesMem' = "freed"
    /\ frees' = [frees EXCEPT !.bytes = @ + 1]
    /\ res' = EXIT_SUCCESS
    /\ pc' = "saved"
    /\ UNCHANGED <<cw, ch, v0, v1, v2, edge0, edge1, edge2, area, x, y, d0, d1, d2,
                   pixels, wr, done, pixelsMem, bytes, ptr, oob,
                   ey, ex, ei, pixelsIn, diag, exit, opened, pt>>

-----------------------------------------------------------------------------
(* Spec: main, for a build whose WIDTH and HEIGHT are at most MaxW and MaxH. *)

Init ==
    /\ cw \in 1..MaxW /\ ch \in 1..MaxH
    /\ NoTriangle /\ NoLoop /\ NoEncoder /\ NoMemory /\ NoPoint
    /\ pixels = <<>>
    /\ exit = -1
    /\ pc = "start"

\* Lines 41-42: the pixel array allocated and cleared.
AllocPixels ==
    /\ pc = "start"
    /\ pixelsMem' = "live"
    /\ pixels' = [i \in 0..(cw * ch * 3 - 1) |-> 0]
    /\ pc' = "vertices"
    /\ UNCHANGED <<cw, ch, v0, v1, v2, edge0, edge1, edge2, area, x, y, d0, d1, d2,
                   wr, done, bytesMem, frees, uaf, bytes, ptr, oob, ey, ex, ei,
                   pixelsIn, file, diag, res, exit, opened, pt>>

\* Lines 45-47: the three corners.
DeclareVertices ==
    /\ pc = "vertices"
    /\ v0' = Vertex0(cw, ch) /\ v1' = Vertex1(cw, ch) /\ v2' = Vertex2(cw, ch)
    /\ pc' = "edges"
    /\ UNCHANGED <<cw, ch, edge0, edge1, edge2, area, x, y, d0, d1, d2, pixels,
                   wr, done, pixelsMem, bytesMem, frees, uaf, bytes, ptr, oob, ey, ex,
                   ei, pixelsIn, file, diag, res, exit, opened, pt>>

\* Lines 58-86: the loop body for pixel (x, y), then the loop counters step.
PixelStep ==
    /\ pc = "loop" /\ y < ch /\ x < cw
    /\ PixelBody(x, y)
    /\ uaf' = (uaf \/ (wr' # {} /\ pixelsMem # "live"))
    /\ done' = done \cup {<<x, y>>}
    /\ IF x + 1 < cw THEN x' = x + 1 /\ y' = y
                     ELSE x' = 0 /\ y' = y + 1
    /\ pc' = IF y' < ch THEN "loop" ELSE "save"
    /\ UNCHANGED <<cw, ch, v0, v1, v2, edge0, edge1, edge2, area,
                   pixelsMem, bytesMem, frees, bytes, ptr, oob, ey, ex, ei,
                   pixelsIn, file, diag, res, exit, opened, pt>>

\* Lines 89-92: save_pixels_as_bmp has returned; free(pixels); return res.
FreeAndReturn ==
    /\ pc = "saved"
    /\ uaf' = (uaf \/ pixelsMem # "live")
    /\ pixelsMem' = "freed"
    /\ frees' = [frees EXCEPT !.pixels = @ + 1]
    /\ exit' = res
    /\ pc' = "exit"
    /\ UNCHANGED <<cw, ch, v0, v1, v2, edge0, edge1, edge2, area, x, y, d0, d1, d2,
                   pixels, wr, done, bytesMem, bytes, ptr, oob, ey, ex, ei,
                   pixelsIn, file, diag, res, opened, pt>>

Next ==
    \/ AllocPixels \/ DeclareVertices \/ SetupEdges \/ PixelStep
    \/ SaveBegin \/ EncPixelByte \/ EncPadByte \/ EncRowEnd
    \/ OpenFail \/ OpenOk \/ WriteFile
    \/ FreeAndReturn

Spec == Init /\ [][Next]_vars

-----------------------------------------------------------------------------
(* SpecPixel: the loop body of main on the 512 x 512 canvas, one run per pixel. *)
(* The pixel array is held at the three slots of the pixel alone: they are      *)
(* cleared by the memset and indexed by the loop body of no other pixel.        *)

InitPixel ==
    /\ Triangle(WIDTH, HEIGHT)
    /\ x \in 0..(WIDTH - 1) /\ y \in 0..(HEIGHT - 1)
    /\ pixels = [i \in PixelSlots(x, y, WIDTH) |-> 0]
    /\ d0 = 0 /\ d1 = 0 /\ d2 = 0 /\ wr = {} /\ done = {}
    /\ pixelsMem = "live" /\ bytesMem = "none"
    /\ frees = [pixels |-> 0, bytes |-> 0] /\ uaf = FALSE
    /\ NoEncoder /\ NoPoint
    /\ exit = -1
    /\ pc = "pixel"

ShadePixel ==
    /\ pc = "pixel"
    /\ PixelBody(x, y)
    /\ done' = {<<x, y>>}
    /\ pc' = "shaded"
    /\ UNCHANGED <<cw, ch, v0, v1, v2, edge0, edge1, edge2, area, x, y,
                   pixelsMem, bytesMem, frees, uaf, bytes, ptr, oob, ey, ex, ei,
                   pixelsIn, file, diag, res, exit, opened, pt>>

NextPixel == ShadePixel

SpecPixel == InitPixel /\ [][NextPixel]_vars

-----------------------------------------------------------------------------
(* Claims checked under Spec *)

\* C8: main exits with EXIT_FAILURE exactly when fopen failed; then the path was
\* named in a diagnostic and nothing was written; when fopen succeeded the whole
\* byte stream was written and the status is EXIT_SUCCESS.  On both paths each
\* buffer is freed exactly once and no buffer is used when it is not live.
C8_ExitStatus ==
    /\ ~uaf
    /\ frees.pixels <= 1 /\ frees.bytes <= 1
    /\ pc \in {"saved", "exit"} =>
          /\ res = EXIT_FAILURE <=> opened = "no"
          /\ res = EXIT_SUCCESS <=> opened = "yes"
          /\ opened = "no" => diag = "result.bmp" /\ file = <<>>
          /\ opened = "yes" => /\ diag = ""
                              /\ DOMAIN file = 0..(FileSize(cw, ch) - 1)
                              /\ \A i \in DOMAIN file : file[i] = bytes[i] /\ file[i] \in 0..255
          /\ bytesMem = "freed" /\ frees.bytes = 1
    /\ pc = "exit" =>
          /\ exit = res /\ exit \in {EXIT_SUCCESS, EXIT_FAILURE}
          /\ EXIT_SUCCESS # EXIT_FAILURE
          /\ pixelsMem = "freed" /\ frees.pixels = 1
    /\ pc # "exit" => exit = -1

\* C8 witness: main has returned EXIT_FAILURE after a failed fopen, both buffers
\* freed once, nothing written.
C8_Witness ==
    /\ pc = "exit" /\ exit = EXIT_FAILURE /\ opened = "no"
    /\ frees = [pixels |-> 1, bytes |-> 1] /\ file = <<>> /\ diag = "result.bmp"

-----------------------------------------------------------------------------
(* SpecEnc: save_pixels_as_bmp called on given pixel arrays. *)

\* Pixel arrays whose bytes differ from index to index, and the all-red array.
TestBuffers(w, h) ==
    {[i \in 0..(w * h * 3 - 1) |-> (37 * i + 100 * s) % 256] : s \in 0..MaxSeed}
      \cup {[i \in 0..(w * h * 3 - 1) |-> IF i % 3 = 0 THEN 255 ELSE 0]}

InitEnc ==
    /\ cw \in 1..MaxW /\ ch \in 1..MaxH
    /\ pixels \in TestBuffers(cw, ch)
    /\ NoTriangle /\ NoLoop /\ NoEncoder /\ NoPoint
    /\ pixelsMem = "live" /\ bytesMem = "none"
    /\ frees = [pixels |-> 0, bytes |-> 0] /\ uaf = FALSE
    /\ exit = -1
    /\ pc = "save"

NextEnc ==
    \/ SaveBegin \/ EncPixelByte \/ EncPadByte \/ EncRowEnd
    \/ OpenFail \/ OpenOk \/ WriteFile

SpecEnc == InitEnc /\ [][NextEnc]_vars

\* The 32-bit little-endian integer stored at offset o.
LE32At(b, o) == b[o] + 256 * b[o + 1] + 65536 * b[o + 2] + 16777216 * b[o + 3]

\* A bitmap reader: the top-down RGB pixel array held in a 24-bit bmp stream,
\* by the header's own fields and the format's row length rule.
Decode(b) ==
    LET off == LE32At(b, 10)
        w == LE32At(b, 18)
        h == LE32At(b, 22)
        rowLen == ((24 * w + 31) \div 32) * 4
    IN  [i \in 0..(w * h * 3 - 1) |->
            LET c == i % 3
                col == (i \div 3) % w
                row == (i \div 3) \div w
            IN  b[off + (h - 1 - row) * rowLen + 3 * col + (2 - c)]]

Encoded == pc \in {"open", "write", "saved"}

\* C6: after the header the stream holds the rows bottom-to-top and each pixel as
\* B,G,R: byte 54 + r*stride + 3*x + c is pixels[((h-1-r)*w + x)*3 + (2-c)], the
\* padding bytes of each row are 0, decoding gives back the pixel array, and the
\* pixel array is as it was passed in.
C6_RowsBottomUpBGR ==
    /\ pc # "save" => pixels = pixelsIn
    /\ Encoded =>
          LET stride == cw * 3 + Padding(cw)
          IN  /\ \A r \in 0..(ch - 1), xx \in 0..(cw - 1), c \in 0..2 :
                    bytes[HeaderLen + r * stride + 3 * xx + c]
                      = pixelsIn[((ch - 1 - r) * cw + xx) * 3 + (2 - c)]
              /\ \A r \in 0..(ch - 1), k \in 0..(Padding(cw) - 1) :
                    bytes[HeaderLen + r * stride + 3 * cw + k] = 0
              /\ Decode(bytes) = pixelsIn

\* C6 witness: a 2 x 2 all-red array encoded: the first stored pixel is 0,0,255
\* and two padding bytes end the row.
C6_Witness ==
    /\ Encoded /\ cw = 2 /\ ch = 2
    /\ \A i \in DOMAIN pixelsIn : pixelsIn[i] = IF i % 3 = 0 THEN 255 ELSE 0
    /\ bytes[54] = 0 /\ bytes[55] = 0 /\ bytes[56] = 255
    /\ bytes[60] = 0 /\ bytes[61] = 0
    /\ Decode(bytes) = pixels

\* C7: the stream is exactly size = 54 + (w*3+padding)*h bytes: the cursor never
\* passes size, no store falls outside the buffer, the cursor is size when the
\* pixel loop has ended, every stored row is a multiple of 4 bytes, the header
\* holds size at offset 2, w at 18 and h at 22, and fwrite writes size bytes; for
\* 512 x 512 the padding is 0 and the size 786486.
C7_StreamSize ==
    /\ Padding(WIDTH) = 0 /\ FileSize(WIDTH, HEIGHT) = 786486
    /\ Padding(cw) = (4 - ((cw * 3) % 4)) % 4
    /\ (cw * 3 + Padding(cw)) % 4 = 0
    /\ ~oob
    /\ pc # "save" =>
          LET size == HeaderLen + (cw * 3 + Padding(cw)) * ch
          IN  /\ DOMAIN bytes = 0..(size - 1)
              /\ HeaderLen <= ptr /\ ptr <= size
              /\ ptr = HeaderLen + (ch - 1 - ey) * (cw * 3 + Padding(cw))
                         + (IF pc = "row" THEN 3 * ex + (2 - ei)
                            ELSE IF pc = "pad" THEN 3 * cw + ei ELSE 0)
              /\ Encoded => ptr = size /\ \A i \in DOMAIN bytes : bytes[i] \in 0..255
              /\ LE32At(bytes, 2) = size
              /\ LE32At(bytes, 18) = cw /\ LE32At(bytes, 22) = ch
              /\ bytes[0] = 66 /\ bytes[1] = 77
              /\ (pc = "saved" /\ opened = "yes") => DOMAIN file = 0..(size - 1)

\* C7 witness: a 3-wide canvas (3 padding bytes a row) fully encoded and written.
C7_Witness ==
    /\ pc = "saved" /\ opened = "yes" /\ cw = 3 /\ ch = 2
    /\ Padding(cw) = 3 /\ ptr = 78 /\ DOMAIN file = 0..77

-----------------------------------------------------------------------------
(* SpecPar: the pixel steps of the loop of main executed in any order. *)

AllPixels == (0..(cw - 1)) \X (0..(ch - 1))

InitPar ==
    /\ \E w \in 1..MaxW, h \in 1..MaxH :
          /\ w * h <= MaxParPixels
          /\ Triangle(w, h)
          /\ pixels = [i \in 0..(w * h * 3 - 1) |-> 0]
    /\ NoLoop /\ NoEncoder /\ NoPoint
    /\ pixelsMem = "live" /\ bytesMem = "none"
    /\ frees = [pixels |-> 0, bytes |-> 0] /\ uaf = FALSE
    /\ exit = -1
    /\ pc = "par"

\* The loop body run for some pixel not yet processed (its distances and
\* weights are locals of the worker that runs it).
ParPixelStep ==
    /\ pc = "par"
    /\ \E q \in AllPixels \ done :
          /\ pixels' \in Shaded(pixels, q[1], q[2])
          /\ done' = done \cup {q}
    /\ UNCHANGED <<pc, cw, ch, v0, v1, v2, edge0, edge1, edge2, area,
                   x, y, d0, d1, d2, wr,
                   pixelsMem, bytesMem, frees, uaf, bytes, ptr, oob, ey, ex, ei,
                   pixelsIn, file, diag, res, exit, opened, pt>>

\* All pixel steps have run: the join before the encoder.
Join ==
    /\ pc = "par" /\ done = AllPixels
    /\ pc' = "save"
    /\ UNCHANGED <<cw, ch, v0, v1, v2, edge0, edge1, edge2, area, x, y, d0, d1, d2,
                   pixels, wr, done, pixelsMem, bytesMem, frees, uaf, bytes, ptr, oob,
                   ey, ex, ei, pixelsIn, file, diag, res, exit, opened, pt>>

NextPar == ParPixelStep \/ Join

SpecPar == InitPar /\ [][NextPar]_vars

\* The pixel array the loop of main leaves: pixels k, k+1, ... in raster order.
RECURSIVE RasterFrom(_, _)
RasterFrom(buf, k) ==
    IF k = cw * ch THEN buf
    ELSE RasterFrom(CHOOSE b \in Shaded(buf, k % cw, k \div cw) : TRUE, k + 1)

RasterOrderBuffer == RasterFrom([i \in 0..(cw * ch * 3 - 1) |-> 0], 0)

\* The slots (y*WIDTH+x)*3+{0,1,2} of pixel q.
SlotsOf(q) == {(q[2] * cw + q[1]) * 3 + c : c \in 0..2}

\* C9 (state part): the slots the loop body indexes for a pixel are
\* (y*WIDTH+x)*3+{0,1,2}, lie inside the pixel array and are disjoint from those of
\* every other pixel; after the join the pixel array equals the one the
\* raster-order loop leaves.
C9_State ==
    /\ done = {} =>
          \A q \in AllPixels :
              /\ PixelSlots(q[1], q[2], cw) = SlotsOf(q)
              /\ PixelSlots(q[1], q[2], cw) \subseteq 0..(cw * ch * 3 - 1)
              /\ \A o \in AllPixels \ {q} :
                    PixelSlots(q[1], q[2], cw) \cap PixelSlots(o[1], o[2], cw) = {}
    /\ DOMAIN pixels = 0..(cw * ch * 3 - 1)
    /\ pc = "save" => pixels = RasterOrderBuffer

\* C9 (step part): a pixel step changes the pixel array at most at the three
\* slots of its pixel and leaves the edges and the area as they were.
C9_Step ==
    /\ \/ pixels' = pixels
       \/ \A i \in DOMAIN pixels :
             pixels'[i] # pixels[i] => \E q \in done' \ done : i \in SlotsOf(q)
    /\ DOMAIN pixels' = DOMAIN pixels
    /\ <<edge0, edge1, edge2, area>>' = <<edge0, edge1, edge2, area>>

\* C9: pixel steps write disjoint in-range slots and read only the edges and the
\* area, so every execution order of the pixel steps ends in the pixel array of
\* the raster-order loop.
C9_OrderIndependent == []C9_State /\ [][C9_Step]_vars

\* C9 witness: on the 4 x 4 canvas every pixel but the first has been processed
\* (so not in raster order), three pixels are coloured, and the array already is
\* the one the raster-order loop leaves.
C9_Witness ==
    /\ pc = "par" /\ cw = 4 /\ ch = 4 /\ done = AllPixels \ {<<0, 0>>}
    /\ ~Black(1, 1) /\ ~Black(2, 1) /\ ~Black(1, 2)
    /\ pixels = RasterOrderBuffer

-----------------------------------------------------------------------------
(* SpecEdge: init_edge and test_edge as functions of three corners and a point. *)

\* Coordinates 0, 0.5, ..., MaxCoord/2.
Grid == {Vec(2 * i, 2 * j) : i, j \in 0..MaxCoord}

\* Sample points tried against the fixed triangle of main.
FixedSamples == {PixelCentre(256, 256), PixelCentre(255, 0), PixelCentre(0, 0),
                 PixelCentre(2, 509), PixelCentre(511, 255), PixelCentre(300, 200)}

InitEdgeSpec ==
    /\ \/ v0 \in Grid /\ v1 \in Grid /\ v2 \in Grid /\ pt \in Grid
       \/ /\ v0 = Vertex0(WIDTH, HEIGHT) /\ v1 = Vertex1(WIDTH, HEIGHT)
          /\ v2 = Vertex2(WIDTH, HEIGHT) /\ pt \in FixedSamples
    /\ edge0 = [a |-> 0, b |-> 0, c |-> 0]
    /\ edge1 = [a |-> 0, b |-> 0, c |-> 0]
    /\ edge2 = [a |-> 0, b |-> 0, c |-> 0]
    /\ area = 0
    /\ NoCanvas /\ NoLoop /\ NoEncoder /\ NoMemory
    /\ opened = "untried"
    /\ pixels = <<>>
    /\ exit = -1
    /\ pc = "edges"

\* The three test_edge calls of the loop body, at the point pt.
TestPoint ==
    /\ pc = "loop"
    /\ d0' = TestEdge(edge0, pt)
    /\ d1' = TestEdge(edge1, pt)
    /\ d2' = TestEdge(edge2, pt)
    /\ pc' = "tested"
    /\ UNCHANGED <<cw, ch, v0, v1, v2, edge0, edge1, edge2, area, x, y, pixels, wr,
                   done, pixelsMem, bytesMem, frees, uaf, bytes, ptr, oob, ey, ex, ei,
                   pixelsIn, file, diag, res, exit, opened, pt>>

NextEdge == SetupEdges \/ TestPoint

SpecEdge == InitEdgeSpec /\ [][NextEdge]_vars

\* A positive float [m, e] below 8 as a count of 2^-28 (fraction discarded).
Fix28(f) ==
    IF f.e + 28 >= 0 THEN f.m * Pow2(f.e + 28)
    ELSE IF -(f.e + 28) >= 24 THEN 0
    ELSE f.m \div Pow2(-(f.e + 28))

\* C3: for any corners and any point the three edge distances add up to the
\* area (the sum of the three c-terms); so where the point passes the inside test
\* the area is positive and the float weights d0/area, d1/area, d2/area add up to 1
\* within 1e-4.
C3_DistancesSumToArea ==
    pc = "tested" =>
        /\ d0 + d1 + d2 = area
        /\ area = edge0.c + edge1.c + edge2.c
        /\ Inside(d0, d1, d2) =>
              /\ area > 0
              /\ Abs(Fix28(Weight(d0, area)) + Fix28(Weight(d1, area))
                       + Fix28(Weight(d2, area)) - Pow2(28)) <= Pow2(28) \div 10000

\* C3 witness: a point inside a triangle of non-zero area, all three distances
\* evaluated and adding up to the area.
C3_Witness ==
    /\ pc = "tested" /\ Inside(d0, d1, d2) /\ area > 0
    /\ d0 + d1 + d2 = area /\ d0 # d1 /\ d1 # d2

\* (v1.x-v0.x)*(v2.y-v0.y) - (v2.x-v0.x)*(v1.y-v0.y), in sixteenths.
Shoelace(a, b, c) == (b.x - a.x) * (c.y - a.y) - (c.x - a.x) * (b.y - a.y)

\* C4 as stated: the area of main equals the shoelace expression of (v0,v1,v2),
\* sign included.
C4_AreaIsShoelace ==
    pc # "edges" => 4 * area = Shoelace(v0, v1, v2)

\* C4 as amended: the area of main is the NEGATED shoelace expression, that is
\* (v2.x-v0.x)*(v1.y-v0.y) - (v1.x-v0.x)*(v2.y-v0.y); equal magnitude, opposite sign.
C4_AreaIsNegatedShoelace ==
    pc # "edges" => 4 * area = -Shoelace(v0, v1, v2)

\* C4 witness: the fixed corners of main, area 195841 and shoelace -195841.
C4_Witness ==
    /\ pc # "edges"
    /\ v0 = Vec(1022, 2) /\ v1 = Vec(2, 2046) /\ v2 = Vec(2046, 1022)
    /\ area = 4 * 195841
    /\ Shoelace(v0, v1, v2) = -16 * 195841

-----------------------------------------------------------------------------
(* Claims checked under SpecPixel *)

\* The slots held for pixel (x, y) lie inside the 512 x 512 x 3 array and each of
\* them determines (x, y): no other pixel's loop body indexes them.
OwnSlots ==
    \A i \in DOMAIN pixels :
        /\ i \in 0..(WIDTH * HEIGHT * 3 - 1)
        /\ (i \div 3) % WIDTH = x /\ (i \div 3) \div WIDTH = y

\* C1: once the loop body has run for a pixel of the 512 x 512 canvas whose centre
\* gives some edge a distance <= 0 (outside, or exactly on an edge), the pixel
\* still holds (0,0,0) and nothing was written for it; its slots are indexed by
\* no other pixel, so this is its value when the loop ends.
C1_OutsideStaysBlack ==
    /\ OwnSlots
    /\ (pc = "shaded" /\ (d0 <= 0 \/ d1 <= 0 \/ d2 <= 0)) => (Black(x, y) /\ wr = {})

\* C1 witness: the pixel whose centre is the corner v0 lies on two edges
\* (distance exactly 0) and is left black.
C1_Witness ==
    /\ pc = "shaded" /\ x = 255 /\ y = 0
    /\ d1 = 0 /\ d2 = 0 /\ d0 > 0 /\ Black(x, y)

\* Twice-signed-area cross product (b - a) x (q - a), independent of init_edge.
Cross(a, b, q) == (b.x - a.x) * (q.y - a.y) - (b.y - a.y) * (q.x - a.x)

\* q is strictly on the same side of the line a-b as c.
SameSide(a, b, c, q) == Sign(Cross(a, b, q)) = Sign(Cross(a, b, c)) /\ Cross(a, b, q) # 0

\* q lies strictly inside the triangle a, b, c (same-side test against each side).
GeomInside(q, a, b, c) == SameSide(a, b, c, q) /\ SameSide(b, c, a, q) /\ SameSide(c, a, b, q)

\* C2: every pixel centre of the 512 x 512 canvas strictly inside the fixed triangle
\* has all three edge distances strictly positive and is coloured; the canvas centre
\* pixel is inside and ends with all three channels > 0.
C2_InsideIsPositive ==
    /\ (pc = "shaded" /\ GeomInside(PixelCentre(x, y), v0, v1, v2))
          => (d0 > 0 /\ d1 > 0 /\ d2 > 0 /\ wr = PixelSlots(x, y, cw))
    /\ (pc = "shaded" /\ x = WIDTH \div 2 /\ y = HEIGHT \div 2)
          => /\ GeomInside(PixelCentre(x, y), v0, v1, v2)
             /\ Red(x, y) > 0 /\ Green(x, y) > 0 /\ Blue(x, y) > 0

\* C2 witness: the canvas centre pixel, shaded with three non-zero channels.
C2_Witness ==
    /\ pc = "shaded" /\ x = 256 /\ y = 256
    /\ GeomInside(PixelCentre(x, y), v0, v1, v2)
    /\ Red(x, y) > 0 /\ Green(x, y) > 0 /\ Blue(x, y) > 0

\* C5: a pixel classified inside holds trunc(255*d0/area) in its red slot,
\* trunc(255*d1/area) in green and trunc(255*d2/area) in blue, where trunc
\* discards the fraction of the exact quotient.
C5_TruncatedWeights ==
    (pc = "shaded" /\ Inside(d0, d1, d2)) =>
        /\ OwnSlots
        /\ wr = {(y * WIDTH + x) * 3 + c : c \in 0..2}
        /\ Red(x, y) = (255 * d0) \div area
        /\ Green(x, y) = (255 * d1) \div area
        /\ Blue(x, y) = (255 * d2) \div area

\* C5 witness: an inside pixel whose three exact products 255*d/area all have a
\* fraction above one half, so rounding to nearest would change every channel.
C5_Witness ==
    /\ pc = "shaded" /\ Inside(d0, d1, d2)
    /\ \A d \in {d0, d1, d2} : 2 * ((255 * d) % area) > area
    /\ Red(x, y) = (255 * d0) \div area

\* C10: on the fixed canvas every inside pixel has each distance below the area,
\* so each product handed to the conversion is a float in [0, 255), each channel is
\* in 0..254 and the three channels sum to 253, 254 or 255; the non-black pixels
\* are exactly the pixels that passed the inside test.
C10_ChannelRange ==
    /\ area > 0
    /\ (pc = "shaded" /\ Inside(d0, d1, d2)) =>
          /\ \A d \in {d0, d1, d2} :
                /\ d < area
                /\ FitsU8(FMul255(Weight(d, area)))
                /\ ToU8(FMul255(Weight(d, area))) \in 0..254
          /\ \A c \in 0..2 : pixels[PixelIndex(x, y, cw, c)] \in 0..254
          /\ Red(x, y) + Green(x, y) + Blue(x, y) \in 253..255
    /\ pc = "shaded" => (~Black(x, y) <=> Inside(d0, d1, d2))

\* C10 witness: an inside pixel whose channels sum to 253.
C10_Witness ==
    /\ pc = "shaded" /\ Inside(d0, d1, d2)
    /\ Red(x, y) + Green(x, y) + Blue(x, y) = 253

====
